---- MODULE Spec2Model ----
(***************************************************************************)
(* Model of rusty_diction_ease (src/src/main.rs): a console dictionary     *)
(* that looks a word up in a HashMap<String, Vec<String>>, and on a miss   *)
(* asks difflib::get_close_matches for the closest key, asks the user to   *)
(* confirm it, and on "yes" looks the suggested key up again.              *)
(*                                                                         *)
(* Strings are sequences of one-character strings, so that trim,           *)
(* to_lowercase and the similarity ratio are computed character by         *)
(* character as the code computes them.                                    *)
(***************************************************************************)
EXTENDS Integers, Sequences, FiniteSets, TLC

VARIABLES
    source,    \* JSON_DATA: the embedded JSON text, as what parsing makes of it
    data,      \* Dictionary.data: the HashMap, a function key -> definitions
    keyOrder,  \* the order in which this HashMap instance iterates its keys
    pc,        \* "start" | "main_read" | "lookup" | "confirm" | "report", or
               \* ended: "done" (Ok(())), "failed" (main returned Err), "panicked"
    eof,       \* stdin is exhausted: every read_line returns Ok(0)
    input,     \* main's `input` after trim(): the top-level query last read
    word,      \* the argument of the lookup call in progress
    depth,     \* recursion depth of the lookup call in progress (0 = from main)
    lookups,   \* lookup calls made for the current top-level query
    prompts,   \* "Did you mean" prompts printed for the current top-level query
    cand,      \* close_word: the candidate named by the last prompt
    reply,     \* confirm_word's `input`: the raw line last read after a prompt
    outcome,   \* the Result lookup returned to main
    via,       \* the arm of lookup's match on confirm_word that made the outcome
    io         \* the console events of the current turn of main's loop

vars == <<source, data, keyOrder, pc, eof, input, word, depth, lookups, prompts,
          cand, reply, outcome, via, io>>

(***************************************************************************)
(* Bounds of the model.                                                    *)
(***************************************************************************)
MaxKeys == 2     \* keys in the dictionary
MaxDepth == 2    \* affirmative answers followed within one top-level query

(***************************************************************************)
(* Words.                                                                  *)
(***************************************************************************)
W_empty == << >>
W_cat   == <<"c", "a", "t">>
W_Cat   == <<"C", "a", "t">>
W_CatSp == <<"C", "a", "t", " ">>
W_kat   == <<"k", "a", "t">>
W_cats  == <<"c", "a", "t", "s">>
W_cart  == <<"c", "a", "r", "t">>
W_carts == <<"c", "a", "r", "t", "s">>
W_zzzzz == <<"z", "z", "z", "z", "z">>
W_Delhi == <<"D", "e", "l", "h", "i">>
W_delhi == <<"d", "e", "l", "h", "i">>
W_exit  == <<"e", "x", "i", "t">>
W_EXIT  == <<"E", "X", "I", "T">>
W_SpExit == <<" ", "e", "x", "i", "t">>
W_y     == <<"y">>
W_Yes   == <<"Y", "e", "s">>
W_yes   == <<"y", "e", "s">>
W_n     == <<"n">>
W_NO    == <<"N", "O">>
W_no    == <<"n", "o">>
W_maybe == <<"m", "a", "y", "b", "e">>
W_SpYES == <<" ", "Y", "E", "S", " ">>
W_yess  == <<"y", "e", "s", "s">>

NoWord == <<"<none>">>   \* no string: not a sequence of characters
BadBytes == <<"<invalid utf-8>">>   \* a line read_line fails on (Err)

\* the keys a JSON source may hold (from_json takes them as they are)
KeyUniverse == {W_cat, W_cats, W_cart, W_carts, W_Delhi, W_exit}

\* the definition lists a JSON source may give a key
DefSeqs == {<<"a feline">>, <<"first sense", "second sense">>}

\* the lines a user may type (without the line terminator)
Lines == {W_cat, W_CatSp, W_kat, W_cats, W_cart, W_zzzzz, W_Delhi, W_delhi,
          W_empty, W_exit, W_EXIT, W_SpExit,
          W_y, W_Yes, W_SpYES, W_yess, W_n, W_NO, W_no, W_maybe}

(***************************************************************************)
(* str::trim and str::to_lowercase.                                        *)
(***************************************************************************)
Whitespace == {" ", "\n", "\t", "\r"}

UpperToLower ==
    [c \in {"C", "D", "E", "X", "I", "T", "Y", "N", "O", "S"} |->
        CASE c = "C" -> "c" [] c = "D" -> "d" [] c = "E" -> "e"
          [] c = "X" -> "x" [] c = "I" -> "i" [] c = "T" -> "t"
          [] c = "Y" -> "y" [] c = "N" -> "n" [] c = "O" -> "o"
          [] c = "S" -> "s"]

RECURSIVE TrimStart(_)
TrimStart(s) ==
    IF s = << >> THEN << >>
    ELSE IF Head(s) \in Whitespace THEN TrimStart(Tail(s)) ELSE s

RECURSIVE TrimEnd(_)
TrimEnd(s) ==
    IF s = << >> THEN << >>
    ELSE IF s[Len(s)] \in Whitespace THEN TrimEnd(SubSeq(s, 1, Len(s) - 1))
    ELSE s

Trim(s) == TrimEnd(TrimStart(s))

ToLowercase(s) ==
    [i \in 1..Len(s) |->
        IF s[i] \in DOMAIN UpperToLower THEN UpperToLower[s[i]] ELSE s[i]]

\* `word.trim().to_lowercase()` at the head of lookup
Normalize(s) == ToLowercase(Trim(s))

(***************************************************************************)
(* difflib: SequenceMatcher::ratio and get_close_matches, as called by     *)
(* lookup with n = 1 and cutoff = 0.8.  A ratio is the pair <<num, den>>   *)
(* standing for the f32 num / den; both the quotients compared here and    *)
(* the literal 0.8 are correctly rounded, so the comparisons of f32 values *)
(* agree with the comparisons of the fractions.                            *)
(***************************************************************************)
TopN == 1
CutoffNum == 8
CutoffDen == 10

\* the common blocks of a[alo..ahi] and b[blo..bhi], as <<start in a, start in b, size>>
CommonBlocks(a, b, alo, ahi, blo, bhi) ==
    {m \in (alo..ahi) \X (blo..bhi) \X (1..Len(a)) :
        /\ m[1] + m[3] - 1 <= ahi
        /\ m[2] + m[3] - 1 <= bhi
        /\ \A t \in 0..(m[3] - 1) : a[m[1] + t] = b[m[2] + t]}

\* the one element of a singleton; {e(x) : x \in {v}} binds x to the value of v
The(S) == CHOOSE x \in S : TRUE

\* find_longest_match: the longest block; of those, the one starting earliest
\* in a; of those, the one starting earliest in b; <<alo, blo, 0>> when the
\* ranges have no element in common
FindLongestMatch(a, b, alo, ahi, blo, bhi) ==
    The({IF blocks = {} THEN <<alo, blo, 0>>
         ELSE CHOOSE m \in blocks :
                  \A o \in blocks :
                      \/ m[3] > o[3]
                      \/ m[3] = o[3] /\ m[1] < o[1]
                      \/ m[3] = o[3] /\ m[1] = o[1] /\ m[2] <= o[2]
         : blocks \in {CommonBlocks(a, b, alo, ahi, blo, bhi)}})

\* get_matching_blocks, summed: the longest match, then the same to its left
\* and to its right
RECURSIVE MatchCount(_, _, _, _, _, _)
MatchCount(a, b, alo, ahi, blo, bhi) ==
    The({IF m[3] = 0 THEN 0
         ELSE m[3]
              + MatchCount(a, b, alo, m[1] - 1, blo, m[2] - 1)
              + MatchCount(a, b, m[1] + m[3], ahi, m[2] + m[3], bhi)
         : m \in {FindLongestMatch(a, b, alo, ahi, blo, bhi)}})

\* SequenceMatcher::ratio: 2.0 * matches / (len(a) + len(b)), or 1.0 when both are empty
Ratio(a, b) ==
    IF Len(a) + Len(b) = 0 THEN <<1, 1>>
    ELSE <<2 * MatchCount(a, b, 1, Len(a), 1, Len(b)), Len(a) + Len(b)>>

RatioGE(r, q) == r[1] * q[2] >= q[1] * r[2]

\* a cutoff of 0.6 in place of 0.8
ClearsCutoffLow(r) == RatioGE(r, <<6, 10>>)

\* `ratio >= cutoff`, with the cutoff lookup passes to get_close_matches
ClearsCutoff(r) == RatioGE(r, <<CutoffNum, CutoffDen>>)

\* the loop of get_close_matches: the possibilities that clear the cutoff, in
\* the order given, each with its ratio to `w`
RECURSIVE Scored(_, _)
Scored(w, possibilities) ==
    IF possibilities = << >> THEN << >>
    ELSE The({IF ClearsCutoff(r) THEN <<[ratio |-> r, key |-> Head(possibilities)]>>
              ELSE << >>
              : r \in {Ratio(Head(possibilities), w)}})
         \o Scored(w, Tail(possibilities))

\* insertion into a list sorted by descending ratio, after the entries that are
\* not smaller (sort_by is stable)
RECURSIVE InsertDesc(_, _)
InsertDesc(e, sorted) ==
    IF sorted = << >> THEN <<e>>
    ELSE IF RatioGE(Head(sorted).ratio, e.ratio)
         THEN <<Head(sorted)>> \o InsertDesc(e, Tail(sorted))
         ELSE <<e>> \o sorted

RECURSIVE SortDesc(_)
SortDesc(res) ==
    IF res = << >> THEN << >>
    ELSE InsertDesc(res[Len(res)], SortDesc(SubSeq(res, 1, Len(res) - 1)))

Truncate(s, n) == SubSeq(s, 1, IF Len(s) < n THEN Len(s) ELSE n)

\* get_close_matches(word, possibilities, n, 0.8)
GetCloseMatches(w, possibilities, n) ==
    The({[i \in 1..Len(res) |-> res[i].key]
         : res \in {Truncate(SortDesc(Scored(w, possibilities)), n)}})

(***************************************************************************)
(* UserResponse, DictionaryError and the Result values.                    *)
(***************************************************************************)
\* from_str matching the trimmed line as typed, without to_lowercase
FromStrCaseSensitive(line) ==
    LET s == Trim(line)
    IN  IF s \in {W_y, W_yes} THEN "Yes"
        ELSE IF s \in {W_n, W_no} THEN "No"
        ELSE "Unknown"

\* UserResponse::from_str
FromStr(line) ==
    LET s == ToLowercase(Trim(line))
    IN  IF s \in {W_y, W_yes} THEN "Yes"
        ELSE IF s \in {W_n, W_no} THEN "No"
        ELSE "Unknown"

Ok(v) == [tag |-> "Ok", val |-> v]
ErrNotFound == [tag |-> "NotFound", val |-> << >>]
ErrIncorrectWord(w) == [tag |-> "IncorrectWord", val |-> w]
ErrUnknownInput == [tag |-> "UnknownInput", val |-> << >>]
NoOutcome == [tag |-> "None", val |-> << >>]

(***************************************************************************)
(* The console: read_line appends the line with its terminator, or         *)
(* nothing at end of input (Ok(0)); once exhausted, stdin stays exhausted. *)
(***************************************************************************)
Stdin == IF eof THEN {NoWord} ELSE Lines \cup {NoWord, BadBytes}

RawLine(src) == IF src = NoWord THEN << >> ELSE src \o <<"\n">>

\* the buffer of the previous turn kept, so that read_line appends to it
ReusedString == IF input = NoWord THEN << >> ELSE input

\* String::new(): the buffer read_line appends to
NewString == << >>

Prompted(text) == [ev |-> "prompt", txt |-> text]
ReadOf(src) == [ev |-> "read", txt |-> src]

\* main's println! of its prompt and its read_line
MainIo(src) == <<Prompted(<< >>), ReadOf(src)>>

\* a read_line for each of the two from_str calls of confirm_word
ConfirmIoTwice(src) == <<ReadOf(src), ReadOf(src)>>

\* confirm_word's read_line (its println! is the prompt lookup stops at)
ConfirmIo(src) == <<ReadOf(src)>>

\* the exit test made on the lower-cased line
IsExitAnyCase(line) == ToLowercase(line) = W_exit

\* main's `input == "exit"`
IsExit(line) == line = W_exit

(***************************************************************************)
(* Dictionary.                                                             *)
(***************************************************************************)
Orders(S) ==
    {o \in [1..Cardinality(S) -> S] : \A i, j \in DOMAIN o : o[i] = o[j] => i = j}

\* lookup with the first key the map iterates taken as the suggestion
LookupPassFirstKey(w) ==
    LET nw == Normalize(w)
    IN  IF nw \in DOMAIN data THEN Ok(data[nw])
        ELSE IF keyOrder # << >> THEN [tag |-> "Confirm", val |-> keyOrder[1]]
             ELSE ErrNotFound

\* lookup asking for three matches and taking the last of them
LookupPassLast(w) ==
    LET nw == Normalize(w)
    IN  IF nw \in DOMAIN data THEN Ok(data[nw])
        ELSE The({IF close # << >> THEN [tag |-> "Confirm", val |-> close[Len(close)]]
                  ELSE ErrNotFound
                  : close \in {GetCloseMatches(nw, keyOrder, 3)}})

\* lookup with the map read under the word as given, not as normalized
LookupPassRaw(w) ==
    LET nw == Normalize(w)
    IN  IF w \in DOMAIN data THEN Ok(data[w])
        ELSE The({IF close # << >> THEN [tag |-> "Confirm", val |-> close[1]]
                  ELSE ErrNotFound
                  : close \in {GetCloseMatches(nw, keyOrder, TopN)}})

\* lookup returning IncorrectWord(close_word) in place of asking
LookupPassIncorrect(w) ==
    LET nw == Normalize(w)
    IN  IF nw \in DOMAIN data THEN Ok(data[nw])
        ELSE The({IF close # << >> THEN ErrIncorrectWord(close[1])
                  ELSE ErrNotFound
                  : close \in {GetCloseMatches(nw, keyOrder, TopN)}})

\* lookup up to the prompt: the exact hit, else the closest key, else NotFound
LookupPass(w) ==
    LET nw == Normalize(w)
    IN  IF nw \in DOMAIN data THEN Ok(data[nw])
        ELSE The({IF close # << >> THEN [tag |-> "Confirm", val |-> close[1]]
                  ELSE ErrNotFound
                  : close \in {GetCloseMatches(nw, keyOrder, TopN)}})

\* confirm_word handing on whatever from_str gives
ConfirmResultPassThrough(line) == [tag |-> "Ok", val |-> FromStr(line)]

\* confirm_word's result for the line read
ConfirmResult(line) ==
    IF FromStr(line) \in {"Yes", "No"} THEN [tag |-> "Ok", val |-> FromStr(line)]
    ELSE [tag |-> "Err", val |-> ErrUnknownInput]

\* the No and Unknown arms of the match exchanged
AfterConfirmSwapped(c) ==
    IF c.tag = "Err" THEN [tag |-> "Return", val |-> c.val, via |-> "err"]
    ELSE CASE c.val = "Yes" -> [tag |-> "Recurse", val |-> NoOutcome, via |-> "yes"]
           [] c.val = "No" -> [tag |-> "Return", val |-> ErrUnknownInput, via |-> "no"]
           [] c.val = "Unknown" -> [tag |-> "Return", val |-> ErrNotFound, via |-> "unknown"]

\* lookup's `match self.confirm_word(close_word)?`: what lookup does next, and
\* the arm that decides it ("err": the `?` returns confirm_word's error)
AfterConfirm(c) ==
    IF c.tag = "Err" THEN [tag |-> "Return", val |-> c.val, via |-> "err"]
    ELSE CASE c.val = "Yes" -> [tag |-> "Recurse", val |-> NoOutcome, via |-> "yes"]
           [] c.val = "No" -> [tag |-> "Return", val |-> ErrNotFound, via |-> "no"]
           [] c.val = "Unknown" -> [tag |-> "Return", val |-> ErrUnknownInput, via |-> "unknown"]

(***************************************************************************)
(* The JSON source.  A source is what serde_json makes of the text: the    *)
(* map it describes when the text is a JSON object of string arrays, or a  *)
(* failure, with the entries that were well-formed before the fault.       *)
(***************************************************************************)
Maps ==
    UNION {[keys -> DefSeqs] :
              keys \in {k \in SUBSET KeyUniverse : Cardinality(k) <= MaxKeys}}

Sources == {[ok |-> b, map |-> m] : b \in BOOLEAN, m \in Maps}

\* from_json keeping what was parsed when the text is malformed
FromJsonLenient(src) == [tag |-> "Ok", val |-> src.map]

\* Dictionary::from_json
FromJson(src) ==
    IF src.ok THEN [tag |-> "Ok", val |-> src.map]
    ELSE [tag |-> "Err", val |-> << >>]

(***************************************************************************)
(* The program.                                                            *)
(***************************************************************************)
Init ==
    /\ source \in Sources
    /\ data = << >>
    /\ keyOrder = << >>
    /\ pc = "start"
    /\ eof = FALSE
    /\ input = NoWord
    /\ word = NoWord
    /\ depth = 0
    /\ lookups = 0
    /\ prompts = 0
    /\ cand = NoWord
    /\ reply = NoWord
    /\ outcome = NoOutcome
    /\ via = "none"
    /\ io = << >>

\* main: `let dictionary = Dictionary::from_json(JSON_DATA)?`
Construct ==
    /\ pc = "start"
    /\ \E d \in {FromJson(source)} :
           IF d.tag = "Err"
           THEN pc' = "failed" /\ UNCHANGED <<data, keyOrder>>
           ELSE /\ pc' = "main_read"
                /\ data' = d.val
                /\ keyOrder' \in Orders(DOMAIN d.val)
    /\ UNCHANGED <<source, eof, input, word, depth, lookups, prompts, cand,
                   reply, outcome, via, io>>

\* main: a new buffer, the prompt, read_line (`?` on its error), trim; leave on
\* "exit", else call lookup
MainRead ==
    /\ pc = "main_read"
    /\ \E src \in Stdin :
          /\ io' = MainIo(src)
          /\ IF src = BadBytes
             THEN pc' = "failed" /\ UNCHANGED <<eof, input, word>>
             ELSE LET line == Trim(NewString \o RawLine(src))
                  IN  /\ eof' = (src = NoWord)
                      /\ input' = line
                      /\ IF IsExit(line)
                         THEN pc' = "done" /\ word' = word
                         ELSE pc' = "lookup" /\ word' = line
    /\ UNCHANGED <<source, data, keyOrder, depth, lookups, prompts, cand, reply,
                   outcome, via>>

\* lookup, up to its return or to the prompt printed by confirm_word
Lookup ==
    /\ pc = "lookup"
    /\ lookups' = lookups + 1
    /\ \E r \in {LookupPass(word)} :
           IF r.tag = "Confirm"
           THEN /\ pc' = "confirm"
                /\ cand' = r.val
                /\ prompts' = prompts + 1
                /\ io' = Append(io, Prompted(r.val))
                /\ UNCHANGED <<outcome, via>>
           ELSE /\ pc' = "report"
                /\ outcome' = r
                /\ via' = "none"
                /\ UNCHANGED <<cand, prompts, io>>
    /\ UNCHANGED <<source, data, keyOrder, eof, input, word, depth, reply>>

\* confirm_word from its read_line on (unwrap on its error), and lookup's match
\* on its result: the recursive call lookup(close_word), or the return to main
ConfirmWord ==
    /\ pc = "confirm"
    /\ \E src \in Stdin :
          /\ io' = io \o ConfirmIo(src)
          /\ IF src = BadBytes
             THEN pc' = "panicked"
                  /\ UNCHANGED <<eof, reply, word, depth, outcome, via>>
             ELSE LET line == NewString \o RawLine(src)
                      next == AfterConfirm(ConfirmResult(line))
                  IN  /\ eof' = (src = NoWord)
                      /\ reply' = line
                      /\ via' = next.via
                      /\ IF next.tag = "Recurse"
                         THEN /\ depth < MaxDepth
                              /\ pc' = "lookup"
                              /\ word' = cand
                              /\ depth' = depth + 1
                              /\ outcome' = outcome
                         ELSE /\ pc' = "report"
                              /\ outcome' = next.val
                              /\ UNCHANGED <<word, depth>>
    /\ UNCHANGED <<source, data, keyOrder, input, lookups, prompts, cand>>

\* main's match on the result; the turn of the loop ends and its locals are
\* dropped, except that IncorrectWord looks the named word up first
Report ==
    /\ pc = "report"
    /\ IF outcome.tag = "IncorrectWord"
       THEN /\ pc' = "lookup"
            /\ word' = outcome.val
            /\ UNCHANGED <<lookups, prompts, io>>
       ELSE /\ pc' = "main_read"
            /\ word' = NoWord
            /\ lookups' = 0
            /\ prompts' = 0
            /\ io' = << >>
    /\ depth' = 0
    /\ cand' = NoWord
    /\ reply' = NoWord
    /\ outcome' = NoOutcome
    /\ via' = "none"
    /\ UNCHANGED <<source, data, keyOrder, eof, input>>

Next == Construct \/ MainRead \/ Lookup \/ ConfirmWord \/ Report

Spec == Init /\ [][Next]_vars

\* the program is one thread that runs whenever it can take a step
FairSpec == Spec /\ WF_vars(Next)

(***************************************************************************)
(* Claims.  PassDone: the lookup call in progress has reached its prompt,  *)
(* or has returned without one (no line was read for it: the last line     *)
(* read, if any, was the "yes" that made the call).                        *)
(***************************************************************************)
PassDone ==
    \/ pc = "confirm"
    \/ pc = "report" /\ (reply = NoWord \/ FromStr(reply) = "Yes")

\* C1: after a suggestion and an affirmative answer, the retried lookup of the
\* candidate is an exact hit and the query ends in Resolved(definitions of the
\* candidate): no second miss, no second fuzzy round.
C1_RetryIsExactHit ==
    (depth >= 1 /\ pc \in {"confirm", "report"}) =>
        /\ pc = "report"
        /\ cand \in DOMAIN data
        /\ outcome = Ok(data[cand])

\* C2: within one top-level query lookup recurses at most once and at most one
\* confirmation prompt is issued.
C2_DepthAtMostOne == depth <= 1 /\ prompts <= 1

\* C3: after a suggestion, a negative response ends the query with NotFound
\* and an unrecognized one with UnknownInput; the confirmation is not re-asked
\* and no further lookup is made for the query.
C3_RejectionEndsQuery ==
    [][/\ (pc = "confirm" /\ pc' # "panicked") =>
            /\ FromStr(reply') = "No" =>
                   /\ pc' = "report" /\ outcome' = ErrNotFound
                   /\ lookups' = lookups /\ prompts' = prompts
            /\ FromStr(reply') = "Unknown" =>
                   /\ pc' = "report" /\ outcome' = ErrUnknownInput
                   /\ lookups' = lookups /\ prompts' = prompts
       /\ (pc = "report" /\ reply # NoWord) => pc' = "main_read"]_vars

C3_Witness ==
    /\ pc = "report"
    /\ reply = W_n \o <<"\n">>
    /\ outcome = ErrNotFound
    /\ prompts = 1
    /\ lookups = 1

\* C4: looking up a word that is a key of the dictionary as constructed
\* returns the definitions stored for it, with no confirmation prompt.
C4_KeyResolves ==
    (PassDone /\ word \in DOMAIN data) =>
        /\ pc = "report"
        /\ outcome = Ok(data[word])
        /\ prompts = depth

\* C5: a query that differs from a key only by surrounding whitespace or by
\* letter case does what the lookup of the normalized key does: the same
\* result or the same prompt; when the key is stored normalized, that is its
\* definitions, e.g. "Cat " resolves against {"cat": ...}.
C5_NormalizedQuery ==
    PassDone =>
        \A k \in DOMAIN data :
            Normalize(k) = Normalize(word) =>
                /\ LookupPass(Normalize(k)) =
                       (IF pc = "confirm" THEN [tag |-> "Confirm", val |-> cand]
                        ELSE outcome)
                /\ k = Normalize(k) =>
                       pc = "report" /\ outcome = Ok(data[k]) /\ prompts = depth

C5_Witness ==
    /\ pc = "report"
    /\ input = W_Cat
    /\ DOMAIN data = {W_cat}
    /\ outcome = Ok(<<"a feline">>)
    /\ prompts = 0

\* C6 as stated: with {"cat": ["a feline"]} the query "kat" is answered by a
\* prompt naming "cat", and the answer decides the outcome.
C6_KatSuggestsCat ==
    (DOMAIN data = {W_cat} /\ input = W_kat /\ pc \in {"confirm", "report"}) =>
        \/ pc = "confirm" /\ cand = W_cat
        \/ pc = "report" /\ reply # NoWord

\* C6 as amended: with {"cat": ["a feline"]} the query "kat" (ratio 2/3) gets
\* NotFound and no prompt; the query "cats" (ratio 6/7) gets a prompt naming
\* "cat", and then "y" gives the definitions, "n" NotFound, "maybe" UnknownInput.
C6_CatScenario ==
    (data = (W_cat :> <<"a feline">>) /\ pc \in {"confirm", "report"}) =>
        /\ input = W_kat =>
               pc = "report" /\ outcome = ErrNotFound /\ prompts = 0
        /\ input = W_cats =>
               /\ prompts = 1
               /\ cand = W_cat
               /\ reply = W_y \o <<"\n">> => outcome = Ok(<<"a feline">>)
               /\ reply = W_n \o <<"\n">> => outcome = ErrNotFound
               /\ reply = W_maybe \o <<"\n">> => outcome = ErrUnknownInput

C6_Witness ==
    /\ data = (W_cat :> <<"a feline">>)
    /\ input = W_cats
    /\ pc = "report"
    /\ reply = W_y \o <<"\n">>
    /\ outcome = Ok(<<"a feline">>)

\* C7: when the query misses and no key has a ratio of at least 0.8 to the
\* normalized query, lookup returns NotFound with no prompt and no read.
C7_NoCandidateNotFound ==
    (/\ PassDone
     /\ Normalize(word) \notin DOMAIN data
     /\ \A k \in DOMAIN data :
            ~RatioGE(Ratio(k, Normalize(word)), <<CutoffNum, CutoffDen>>)) =>
        /\ pc = "report"
        /\ outcome = ErrNotFound
        /\ prompts = depth

C7_Witness ==
    /\ pc = "report"
    /\ input = W_zzzzz
    /\ W_cat \in DOMAIN data
    /\ outcome = ErrNotFound
    /\ prompts = 0

\* C8: the suggested candidate does not depend on the order in which the keys
\* of the dictionary are iterated, ties for the highest ratio included.
C8_OrderIndependent ==
    pc = "confirm" =>
        \A o \in Orders(DOMAIN data) :
            GetCloseMatches(Normalize(word), o, TopN) = <<cand>>

\* C9: the candidate a prompt names is a key whose ratio to the normalized
\* query is at least 0.8 and is the highest over all keys, and the call that
\* prompts names one candidate only.
C9_TopCandidate ==
    pc = "confirm" =>
        /\ cand \in DOMAIN data
        /\ RatioGE(Ratio(cand, Normalize(word)), <<CutoffNum, CutoffDen>>)
        /\ \A k \in DOMAIN data :
               RatioGE(Ratio(cand, Normalize(word)), Ratio(k, Normalize(word)))
        /\ prompts = lookups

C9_Witness ==
    /\ pc = "confirm"
    /\ input = W_cart
    /\ DOMAIN data = {W_cat, W_carts}
    /\ cand = W_carts

\* C10: once the input is exhausted the program eventually leaves the loop.
C10_EofEndsLoop == eof ~> (pc = "done")

Running == {"main_read", "lookup", "confirm", "report"}
Ended == {"done", "failed", "panicked"}

\* C11: after every outcome of a query the loop asks for a new query; the
\* loop ends only on the exit instruction, and no error within a query ends
\* the process.
C11_LoopEndsOnlyOnExit ==
    [][/\ pc = "report" => pc' \in {"main_read", "lookup"}
       /\ (pc \in Running /\ pc' \in Ended) =>
              pc = "main_read" /\ pc' = "done" /\ input' = W_exit]_vars

\* the lines of Lines that are an affirmative or a negative answer
AffirmativeLines == {W_y, W_Yes, W_SpYES}
NegativeLines == {W_n, W_NO, W_no}

\* C12: a line read at the prompt is classified, after trimming and ignoring
\* case, as Yes exactly for "y" and "yes", as No exactly for "n" and "no", and
\* as Unknown otherwise, the empty line and the end of input included.
C12_Classification ==
    reply # NoWord =>
        FromStr(reply) =
            (IF \E l \in AffirmativeLines : reply = l \o <<"\n">> THEN "Yes"
             ELSE IF \E l \in NegativeLines : reply = l \o <<"\n">> THEN "No"
             ELSE "Unknown")

C12_Witness ==
    /\ reply = W_SpYES \o <<"\n">>
    /\ pc = "lookup"
    /\ depth = 1
    /\ word = cand

\* C13: lookup never returns IncorrectWord to main: what main reports is
\* definitions, NotFound or UnknownInput, and its IncorrectWord arm (a second
\* lookup of the suggested word) is never taken.
C13_NoIncorrectWord ==
    /\ outcome.tag # "IncorrectWord"
    /\ pc = "report" => outcome.tag \in {"Ok", "NotFound", "UnknownInput"}
    /\ pc = "lookup" => lookups = depth

C13_Witness ==
    /\ pc = "report"
    /\ cand # NoWord
    /\ outcome = ErrNotFound
    /\ FromStr(reply) = "No"

\* C14: one console read for each top-level query and one for each
\* confirmation prompt: in the events of a turn prompts and reads alternate,
\* starting with a prompt, and nothing is reported while a prompt is unread.
C14_PromptThenRead ==
    /\ \A i \in 1..Len(io) :
           io[i].ev = (IF i % 2 = 1 THEN "prompt" ELSE "read")
    /\ pc = "confirm" => Len(io) = 2 * prompts + 1
    /\ pc \in {"lookup", "report"} => Len(io) = 2 * prompts + 2

C14_Witness ==
    /\ pc = "report"
    /\ prompts = 1
    /\ Len(io) = 4
    /\ io[3] = Prompted(cand)
    /\ io[4].txt = W_n

\* the line read last at a prompt of this query
LastRead == RawLine(io[Len(io)].txt)

\* C15: the mapping stays what construction made it, whatever is looked up;
\* the outcome of a query is decided by the dictionary, the line of the query
\* and the replies of that query alone (the word looked up is that line or a
\* key suggested for it, and the outcome is that of the last lookup pass or
\* of the last reply); between queries nothing of the last one is left.
C15_NoStateCarried ==
    /\ pc \in Running => data = source.map
    /\ (pc \in {"lookup", "confirm", "report"} /\ depth = 0) =>
           word = Trim(RawLine(io[2].txt))
    /\ (pc = "lookup" /\ depth > 0) =>
           /\ word = cand /\ cand \in DOMAIN data
           /\ reply = LastRead /\ FromStr(reply) = "Yes"
    /\ (pc = "report" /\ via = "none") => outcome = LookupPass(word)
    /\ (pc = "report" /\ via # "none") =>
           /\ reply = LastRead
           /\ cand \in DOMAIN data
           /\ outcome = (IF FromStr(reply) = "No" THEN ErrNotFound
                         ELSE ErrUnknownInput)
    /\ pc = "main_read" =>
           /\ word = NoWord /\ cand = NoWord /\ reply = NoWord
           /\ outcome = NoOutcome /\ io = << >>
           /\ depth = 0 /\ lookups = 0 /\ prompts = 0

\* between two queries: a query was made (main's last line is still known)
C15_Witness ==
    /\ pc = "main_read"
    /\ input = W_cats
    /\ data = source.map
    /\ W_cat \in DOMAIN data
    /\ io = << >>
    /\ cand = NoWord

\* C16: a malformed source fails at construction: the program ends with the
\* error before any prompt, and nothing is looked up in what was parsed.
C16_MalformedIsFatal ==
    ~source.ok =>
        /\ pc \in {"start", "failed"}
        /\ data = << >>
        /\ io = << >>
        /\ lookups = 0

C16_Witness ==
    /\ ~source.ok
    /\ source.map # << >>
    /\ pc = "failed"

\* the line main read in this turn, trimmed
TopLine == Trim(RawLine(io[2].txt))

\* C17 as stated: a line that is "exit" once trimmed ends the loop with no
\* lookup and no prompt, every other line is passed to lookup, and the word
\* "exit" is never looked up.
C17_ExitNeverLookedUp ==
    /\ pc = "done" =>
           TopLine = W_exit /\ lookups = 0 /\ prompts = 0 /\ Len(io) = 2
    /\ (pc \in {"lookup", "confirm", "report"} /\ depth = 0) =>
           word = TopLine /\ TopLine # W_exit
    /\ pc \in {"lookup", "confirm", "report"} => Normalize(word) # W_exit

\* C17 as amended: a line that is "exit" once trimmed ends the loop with no
\* lookup and no prompt, every other line is passed to lookup as it is, so
\* main never passes "exit" itself to lookup (the entry "exit" is still looked
\* up for "EXIT").
C17_ExitLineEndsLoop ==
    /\ pc = "done" =>
           TopLine = W_exit /\ lookups = 0 /\ prompts = 0 /\ Len(io) = 2
    /\ (pc \in {"lookup", "confirm", "report"} /\ depth = 0) =>
           word = TopLine /\ TopLine # W_exit
    /\ (pc = "report" /\ TopLine = W_EXIT /\ W_exit \in DOMAIN data) =>
           outcome = Ok(data[W_exit])

C17_Witness ==
    /\ pc = "report"
    /\ input = W_EXIT
    /\ W_exit \in DOMAIN data
    /\ outcome = Ok(data[W_exit])
    /\ prompts = 0

\* C18: confirm_word never returns Ok(Unknown): an unrecognized line comes
\* back as Err(UnknownInput), which lookup hands on, so the Unknown arm of
\* lookup's match is never taken and every UnknownInput comes from confirm_word.
C18_UnknownArmUnreachable ==
    /\ via # "unknown"
    /\ reply # NoWord => ConfirmResult(reply) # [tag |-> "Ok", val |-> "Unknown"]
    /\ outcome = ErrUnknownInput =>
           /\ via = "err"
           /\ ConfirmResult(reply) = [tag |-> "Err", val |-> ErrUnknownInput]

C18_Witness ==
    /\ pc = "report"
    /\ outcome = ErrUnknownInput
    /\ via = "err"
    /\ reply = W_maybe \o <<"\n">>

====
